---- MODULE Spec2Model ----
(***************************************************************************)
(* Turn engine of the chat backend: the websocket receive loop             *)
(* (app/main.py), run_agent_step_and_send (app/websocket/handler.py),      *)
(* ChatAgent (core/agent/agent.py) and the streaming model client          *)
(* (services/llm.py), for one connection.                                  *)
(*                                                                         *)
(* One connection is served by one coroutine.  It blocks in three places:  *)
(* the receive of the main loop (pc = "idle"), the model stream that       *)
(* agent.step consumes (pc = "step"), and the receive of the client-tool   *)
(* wait loop inside run_agent_step_and_send (pc = "wait").  Everything     *)
(* between two of these points runs without interleaving, so each action   *)
(* below carries the coroutine from one blocking point to the next one.    *)
(*                                                                         *)
(* Text is a sequence of tokens.  ChatAgent.step passes a keyword           *)
(* connection_state to get_llm_response_stream, which services/llm.py does *)
(* not declare; the model takes the call as bound to the parameters the    *)
(* function declares (model_name, messages, api_keys) and follows its      *)
(* body, since the call as written would end every turn in an error event. *)
(*                                                                         *)
(* The module holds these specifications over disjoint variables:          *)
(*   Spec      the turn engine of one connection, as described above;      *)
(*   StopSpec  the same engine with one more step, which sets the stop     *)
(*             flag while a turn is in flight (in app/main.py the flag is  *)
(*             set and reset within one branch of the receive loop);       *)
(*   TextSpec  ChatAgent.step over the text of one stream, for an agent    *)
(*             whose model name does or does not start with ollama/;       *)
(*   FragSpec  the tool-call accumulator of ChatAgent.step, fed fragment   *)
(*             by fragment and finalized;                                  *)
(*   ConnSpec  two connections with the dictionaries of app/main.py        *)
(*             (ACTIVE_CONNECTIONS, PENDING_AGENT_QUESTIONS) and the       *)
(*             question that execute_browser_task puts to the human        *)
(*             (core/tools/base.py); ConnFairSpec adds the timer of        *)
(*             asyncio.wait_for.                                           *)
(* Each action leaves the variables of the other specifications unchanged. *)
(***************************************************************************)
EXTENDS Integers, Sequences, FiniteSets, TLC

\* ------------------------------------------------------------ bounds
MaxMem == 4      \* inputs are read while the conversation is no longer, and a
                 \* response carries no more tool calls than fit below it
MaxCalls == 2    \* tool calls in one model response
\* the accumulator is fed at most MaxFrags tool-call fragments
MaxFrags == 3
\* the clients send at most MaxSends messages, over all connections
MaxSends == 2
\* at most MaxQuestions questions are put to humans, over all connections
MaxQuestions == 1
\* a stream carries at most MaxChunks content chunks
MaxChunks == 3

\* ------------------------------------------------------------ values
NoId == 0        \* Python None / missing id
NoCost == -1     \* Python None for a cost figure
BogusId == 99    \* a tool_call_id the client invents

ServerTools == {"search"}
ClientTools == {"run_bash_command", "read_file", "edit_file", "paste_at_cursor"}

\* argument strings the model can produce: a JSON object holding the tool's
\* keys, the empty JSON object, and text that is not JSON
ArgsFull == <<"{", "k", "}">>
ArgsEmpty == <<"{", "}">>
ArgsBad == <<"{", "k">>

JsonObject(s) == s = ArgsFull \/ s = ArgsEmpty

\* the key is never found
JsonGetDefault(s, default) == IF JsonObject(s) THEN default ELSE "raise"

\* json.loads(arguments).get(key, default): the value, the default, or a raise
JsonGet(s, default) ==
    IF s = ArgsFull THEN "value" ELSE IF s = ArgsEmpty THEN default ELSE "raise"

\* ------------------------------------------------------------ messages
Msg(role, has, content, calls, id) ==
    [role |-> role, has_content |-> has, content |-> content,
     tool_calls |-> calls, tool_call_id |-> id]

\* the message is put in front of the conversation
add_message_to_memory_front(mem, role, has, content, calls, id) ==
    <<Msg(role, has \/ id # NoId, IF has THEN content ELSE <<>>, calls, id)>> \o mem

\* ChatAgent.add_message_to_memory: content None is left out, except for a
\* message with a tool_call_id, whose content becomes ""
add_message_to_memory(mem, role, has, content, calls, id) ==
    Append(mem, Msg(role, has \/ id # NoId, IF has THEN content ELSE <<>>, calls, id))

SystemPrompt == Msg("system", TRUE, <<"system_prompt">>, <<>>, NoId)

HasToolResult(mem, id) ==
    \E i \in 1..Len(mem) : mem[i].role = "tool" /\ mem[i].tool_call_id = id

\* index of the most recent assistant message with tool calls, 0 if none
RECURSIVE LastCallMsg(_, _)
LastCallMsg(mem, i) ==
    IF i = 0 THEN 0
    ELSE IF mem[i].role = "assistant" /\ mem[i].tool_calls # <<>> THEN i
    ELSE LastCallMsg(mem, i - 1)

CallIds(calls) == {calls[i].id : i \in 1..Len(calls)}

\* the distinct ids of the most recent tool-call message, in its order
RECURSIVE IdSeq(_, _)
IdSeq(calls, acc) ==
    IF calls = <<>> THEN acc
    ELSE IdSeq(Tail(calls),
               IF \E i \in 1..Len(acc) : acc[i] = Head(calls).id THEN acc
               ELSE Append(acc, Head(calls).id))

LastCallIds(mem) ==
    LET i == LastCallMsg(mem, Len(mem)) IN
    IF i = 0 THEN <<>> ELSE IdSeq(mem[i].tool_calls, <<>>)

\* ------------------------------------------------------------ strings
RECURSIVE LStrip(_)
LStrip(s) == IF s # <<>> /\ Head(s) = " " THEN LStrip(Tail(s)) ELSE s

RECURSIVE RStrip(_)
RStrip(s) ==
    IF s # <<>> /\ s[Len(s)] = " " THEN RStrip(SubSeq(s, 1, Len(s) - 1)) ELSE s

Strip(s) == RStrip(LStrip(s))

\* ------------------------------------------------------------ model stream
Chunk(content, frags, finish) ==
    [kind |-> "chunk", has_choice |-> TRUE, content |-> content,
     tool_calls |-> frags, finish_reason |-> finish, cost |-> NoCost]

UsageChunk ==
    [kind |-> "chunk", has_choice |-> FALSE, content |-> <<>>,
     tool_calls |-> <<>>, finish_reason |-> "", cost |-> NoCost]

ErrorEvent(text) ==
    [kind |-> "error", has_choice |-> FALSE, content |-> <<text>>,
     tool_calls |-> <<>>, finish_reason |-> "", cost |-> NoCost]

CostEvent(c) ==
    [kind |-> "final_cost", has_choice |-> FALSE, content |-> <<>>,
     tool_calls |-> <<>>, finish_reason |-> "", cost |-> c]

Frag(index, id, name, arguments) ==
    [index |-> index, id |-> id, name |-> name, arguments |-> arguments]

\* litellm.token_counter over the outbound conversation times the rate: one
\* unit per message
PromptCost(messages) == Len(messages)

\* a failing cost calculation reaches the outer except clause
get_llm_response_stream_raising(messages, prov) ==
    IF prov.raises # "none" \/ prov.cost_fails
    THEN prov.chunks \o <<ErrorEvent("other"), CostEvent(0)>>
    ELSE prov.chunks \o <<CostEvent(PromptCost(messages))>>

\* get_llm_response_stream: the provider's chunks, an error dict when the
\* provider raises, and in every case the trailing ("final_cost", c)
get_llm_response_stream(messages, prov) ==
    IF prov.raises # "none"
    THEN prov.chunks \o <<ErrorEvent(prov.raises), CostEvent(0)>>
    ELSE prov.chunks
         \o <<CostEvent(IF prov.cost_fails THEN 0 ELSE PromptCost(messages))>>

\* ------------------------------------------------------------ ChatAgent.step
\* what step does, in order: messages it appends and items it yields
AppendOp(m) ==
    [op |-> "append", msg |-> m, type |-> "", content |-> <<>>,
     tool_calls |-> <<>>, cost |-> NoCost]

YieldOp(type, content, calls, cost) ==
    [op |-> "yield", msg |-> SystemPrompt, type |-> type, content |-> content,
     tool_calls |-> calls, cost |-> cost]

StepLocals ==
    [response_content |-> <<>>, buffered_content |-> <<>>,
     looks_like_json |-> FALSE, tool_calls_in_progress |-> <<>>,
     captured_finish_reason |-> "", error_yielded |-> FALSE,
     extracted_cost |-> NoCost, ops |-> <<>>]

\* the slot filled last, whatever the index
SlotOfLast(tcip, index) == Len(tcip)

SlotOf(tcip, index) ==
    IF \E p \in 1..Len(tcip) : tcip[p].index = index
    THEN CHOOSE p \in 1..Len(tcip) : tcip[p].index = index
    ELSE 0

\* the arguments of the fragment replace the slot's arguments
AccumulateFragmentAssign(tcip, f) ==
    LET pos == SlotOf(tcip, f.index)
        t1 == IF pos = 0
              THEN Append(tcip, [index |-> f.index, id |-> f.id,
                                 name |-> f.name, arguments |-> <<>>])
              ELSE tcip
        p == IF pos = 0 THEN Len(t1) ELSE pos
        t2 == IF f.arguments # <<>>
              THEN [t1 EXCEPT ![p].arguments = f.arguments]
              ELSE t1
    IN  IF f.name # "" /\ t2[p].name = ""
        THEN [t2 EXCEPT ![p].name = f.name]
        ELSE t2

\* one tool-call fragment into tool_calls_in_progress (kept in the order in
\* which the indices first appear, as the dict keeps it)
AccumulateFragment(tcip, f) ==
    LET pos == SlotOf(tcip, f.index)
        t1 == IF pos = 0
              THEN Append(tcip, [index |-> f.index, id |-> f.id,
                                 name |-> f.name, arguments |-> <<>>])
              ELSE tcip
        p == IF pos = 0 THEN Len(t1) ELSE pos
        t2 == IF f.arguments # <<>>
              THEN [t1 EXCEPT ![p].arguments = @ \o f.arguments]
              ELSE t1
    IN  IF f.name # "" /\ t2[p].name = ""
        THEN [t2 EXCEPT ![p].name = f.name]
        ELSE t2

RECURSIVE AccumulateFragments(_, _)
AccumulateFragments(tcip, frags) ==
    IF frags = <<>> THEN tcip
    ELSE AccumulateFragments(AccumulateFragment(tcip, Head(frags)), Tail(frags))

\* delta.content of one chunk: accumulated, and streamed unless an ollama/
\* model's buffered text starts with "{"
StepContent(L, content, is_ollama) ==
    IF content = <<>> THEN L
    ELSE LET rc == L.response_content \o content
             bc == IF is_ollama THEN L.buffered_content \o content
                   ELSE L.buffered_content
             st == Strip(bc)
             lj == IF is_ollama /\ ~L.looks_like_json /\ st # <<>> /\ Head(st) = "{"
                   THEN TRUE ELSE L.looks_like_json
         IN  [L EXCEPT !.response_content = rc,
                       !.buffered_content = bc,
                       !.looks_like_json = lj,
                       !.ops = IF is_ollama /\ lj THEN @
                               ELSE Append(@, YieldOp("text", content, <<>>, NoCost))]

\* the loop over the stream
RECURSIVE StepLoop(_, _, _, _)
StepLoop(stream, L, is_ollama, stop) ==
    IF stream = <<>> \/ stop THEN L
    ELSE LET ev == Head(stream) IN
         IF ev.kind = "final_cost"
         THEN StepLoop(Tail(stream), [L EXCEPT !.extracted_cost = ev.cost],
                       is_ollama, stop)
         ELSE IF ev.kind = "error"
         THEN [L EXCEPT !.ops = Append(@, YieldOp("error", ev.content, <<>>, NoCost)),
                        !.error_yielded = TRUE]
         ELSE IF ~ev.has_choice
         THEN StepLoop(Tail(stream), L, is_ollama, stop)
         ELSE LET L1 == IF ev.finish_reason # ""
                        THEN [L EXCEPT !.captured_finish_reason = ev.finish_reason]
                        ELSE L
                  L2 == StepContent(L1, ev.content, is_ollama)
                  L3 == [L2 EXCEPT !.tool_calls_in_progress =
                                       AccumulateFragments(@, ev.tool_calls)]
              IN  StepLoop(Tail(stream), L3, is_ollama, stop)

ToolCall(id, name, arguments) == [id |-> id, name |-> name, arguments |-> arguments]

\* every accumulated slot is a tool call
RECURSIVE ValidToolCallsUnfiltered(_)
ValidToolCallsUnfiltered(tcip) ==
    IF tcip = <<>> THEN <<>>
    ELSE <<ToolCall(Head(tcip).id, Head(tcip).name, Head(tcip).arguments)>>
         \o ValidToolCallsUnfiltered(Tail(tcip))

RECURSIVE ValidToolCalls(_)
ValidToolCalls(tcip) ==
    IF tcip = <<>> THEN <<>>
    ELSE LET c == Head(tcip) IN
         (IF c.id # NoId /\ c.name # ""
          THEN <<ToolCall(c.id, c.name, c.arguments)>> ELSE <<>>)
         \o ValidToolCalls(Tail(tcip))

\* json.loads(response_content.strip()) read as {"name": .., "arguments": {..}}:
\* the text "{" name "}" stands for such an object, "{" "}" for an object
\* without a name, anything else does not parse
FallbackName(text) ==
    LET s == Strip(text) IN
    IF Len(s) = 3 /\ s[1] = "{" /\ s[3] = "}" /\ s[2] \notin {"{", "}", " ", "k"}
    THEN s[2] ELSE ""

\* tool_{name}_{hash(arguments) % 10000}: one id per name and arguments
FallbackId(name) ==
    CASE name = "search" -> 91
      [] name = "run_bash_command" -> 92
      [] name = "ask_user" -> 93
      [] name = "terminate" -> 94
      [] OTHER -> 95

AssistantText(text) == Msg("assistant", TRUE, text, <<>>, NoId)
\* content "" instead of no content
AssistantEmptyText == Msg("assistant", TRUE, <<>>, <<>>, NoId)

AssistantNone == Msg("assistant", FALSE, <<>>, <<>>, NoId)
AssistantCalls(calls) == Msg("assistant", FALSE, <<>>, calls, NoId)

\* whatever the reason, the response ends like a stop without the fallback:
\* the text is appended as it is and nothing is yielded
StepFinishPlain(L, is_ollama) ==
    IF L.error_yielded THEN <<>>
    ELSE IF L.response_content # <<>>
    THEN <<AppendOp(AssistantText(L.response_content))>>
    ELSE <<AppendOp(AssistantNone)>>

\* the code after the loop: the finish reason decides
StepFinish(L, is_ollama) ==
    LET valid == ValidToolCalls(L.tool_calls_in_progress)
        fr == L.captured_finish_reason
        fb == FallbackName(L.response_content)
        fbcalls == <<ToolCall(FallbackId(fb), fb, ArgsFull)>>
        handled == L.response_content # <<>> /\ fb # ""
    IN
    IF L.error_yielded THEN <<>>
    ELSE IF fr = "tool_calls" /\ L.tool_calls_in_progress # <<>>
    THEN IF valid # <<>>
         THEN <<AppendOp(AssistantCalls(valid)),
                YieldOp("tool_call_request", <<>>, valid, NoCost)>>
         ELSE <<AppendOp(AssistantText(<<"[Agent Error: Inconsistent tool call state]">>)),
                YieldOp("error", <<"inconsistent">>, <<>>, NoCost)>>
    ELSE IF fr = "stop"
    THEN (IF handled
          THEN <<AppendOp(AssistantCalls(fbcalls)),
                 YieldOp("tool_call_request", <<>>, fbcalls, NoCost)>>
          ELSE IF is_ollama /\ L.looks_like_json
               THEN <<YieldOp("text", L.buffered_content, <<>>, NoCost)>>
               ELSE <<>>)
         \o (IF L.response_content # <<>>
             THEN <<AppendOp(AssistantText(L.response_content))>>
             ELSE <<AppendOp(AssistantNone)>>)
    ELSE <<AppendOp(AssistantText(
               IF L.response_content # <<>>
               THEN L.response_content \o <<"[Incomplete Response]">>
               ELSE <<"[Agent Error: Stream ended unexpectedly]">>)),
           YieldOp("error", <<"unexpected_end">>, <<>>, NoCost)>>

\* ChatAgent.step: the operations of one model invocation
step(stream, is_ollama, stop) ==
    LET L == StepLoop(stream, StepLocals, is_ollama, stop) IN
    L.ops \o StepFinish(L, is_ollama)
    \o (IF L.extracted_cost # NoCost
        THEN <<YieldOp("final_cost", <<>>, <<>>, L.extracted_cost)>>
        ELSE <<>>)

\* ------------------------------------------------------------ outbound events
Ev(type, content, calls, cost) ==
    [type |-> type, content |-> content, tool_calls |-> calls, cost |-> cost]

Send(H, type, content) == [H EXCEPT !.out = Append(@, Ev(type, content, <<>>, NoCost))]

ToolMsg(H, id, content) ==
    [H EXCEPT !.memory = add_message_to_memory(@, "tool", TRUE, content, <<>>, id)]

Cancelled == <<"Tool execution cancelled: Operation interrupted by user">>
Denied == <<"User denied execution">>

\* ------------------------------------------------------------ run_agent_step_and_send
\* how a frame of run_agent_step_and_send leaves the code between two blocking
\* points: it returns, it calls itself, or it blocks in the wait loop
Return(H, finished) ==
    [status |-> "return", finished |-> finished, h |-> H,
     pending |-> <<>>, had_server |-> FALSE, cont |-> <<>>]

Recurse(H) ==
    [status |-> "recurse", finished |-> FALSE, h |-> H,
     pending |-> <<>>, had_server |-> FALSE, cont |-> <<>>]

Block(H, pending, had_server, cont) ==
    [status |-> "wait", finished |-> FALSE, h |-> H,
     pending |-> pending, had_server |-> had_server, cont |-> cont]

\* the exception is swallowed without an event
RaiseSilent(H) == Return(H, FALSE)

\* the except clause around the whole frame: error event, (False, cost)
Raise(H) == Return(Send(H, "error", <<"Error during agent processing">>), FALSE)

InSeq(x, seq) == \E i \in 1..Len(seq) : seq[i] = x

Remove(seq, x) == SelectSeq(seq, LAMBDA y : y # x)

\* a stop observed on an item of the stream: a cancellation result for every
\* call of the most recent tool-call message that has none, info, end
RECURSIVE CancelCalls(_, _)
CancelCalls(H, calls) ==
    IF calls = <<>> THEN H
    ELSE CancelCalls(
             IF HasToolResult(H.memory, Head(calls).id) THEN H
             ELSE ToolMsg(H, Head(calls).id, Cancelled),
             Tail(calls))

StopOnItem(H) ==
    LET i == LastCallMsg(H.memory, Len(H.memory))
        H1 == IF i = 0 THEN H ELSE CancelCalls(H, H.memory[i].tool_calls)
    IN  Return(Send(Send(H1, "info", <<"Operation stopped by user request.">>),
                    "end", <<>>), TRUE)

\* a stop observed at the top of the wait loop
RECURSIVE CancelPending(_, _)
CancelPending(H, pending) ==
    IF pending = <<>> THEN H
    ELSE CancelPending(
             IF HasToolResult(H.memory, Head(pending)) THEN H
             ELSE [ToolMsg(H, Head(pending), Cancelled)
                      EXCEPT !.current_tool_calls = @ \ {Head(pending)}],
             Tail(pending))

StopInWait(H, pending) ==
    Return(Send(Send(CancelPending(H, pending), "info",
                     <<"Tool execution interrupted by user request.">>),
                "end", <<>>), TRUE)

\* the id is not recorded
AskUserNoMarker(c, H) ==
    LET q == JsonGet(c.arguments, "") IN
    IF q = "raise" THEN [exit |-> "raise", h |-> H]
    ELSE [exit |-> "return", h |-> Send(H, "ask_user_request", <<q>>)]

\* the ask_user venue: the id becomes the pending marker, the question is
\* read from the arguments and sent, the frame returns
AskUser(c, H) ==
    LET H1 == IF c.id # NoId THEN [H EXCEPT !.pending_ask = c.id] ELSE H
        q == JsonGet(c.arguments, "")
    IN  IF q = "raise" THEN [exit |-> "raise", h |-> H1]
        ELSE [exit |-> "return", h |-> Send(H1, "ask_user_request", <<q>>)]

\* the terminate venue
Terminate(c, H) ==
    LET r == JsonGet(c.arguments, "Task finished.") IN
    IF r = "raise" THEN [exit |-> "raise", h |-> H]
    ELSE [exit |-> "return", h |-> Send(H, "terminate_request", <<r>>)]

\* the loop that sorts the tool calls by venue; ask_user and terminate end the
\* frame from inside the loop
RECURSIVE Categorize(_, _, _, _)
Categorize(calls, H, server, client) ==
    IF calls = <<>>
    THEN [exit |-> "done", h |-> H, server |-> server, client |-> client]
    ELSE LET c == Head(calls) IN
         IF c.name \in ServerTools
         THEN Categorize(Tail(calls), H, Append(server, c), client)
         ELSE IF c.name \in ClientTools
         THEN Categorize(Tail(calls), H, server, Append(client, c))
         ELSE IF c.name \in {"ask_user", "terminate"}
         THEN LET r == IF c.name = "ask_user" THEN AskUser(c, H) ELSE Terminate(c, H)
              IN  [exit |-> r.exit, h |-> r.h, server |-> server, client |-> client]
         ELSE Categorize(Tail(calls), H, server, client)

\* the function's result whatever the arguments
ServerResultUnchecked(c) == <<"result">>

\* a server tool's result content: unparsable arguments and a raising function
\* both become an error string
ServerResult(c) ==
    IF c.arguments = ArgsFull THEN <<"result">> ELSE <<"Error executing tool">>

RECURSIVE RunServerTools(_, _)
RunServerTools(H, server) ==
    IF server = <<>> THEN H
    ELSE RunServerTools(ToolMsg(H, Head(server).id, ServerResult(Head(server))),
                        Tail(server))

RECURSIVE DistinctIds(_, _)
DistinctIds(calls, acc) ==
    IF calls = <<>> THEN acc
    ELSE DistinctIds(Tail(calls),
                     IF InSeq(Head(calls).id, acc) THEN acc
                     ELSE Append(acc, Head(calls).id))

RECURSIVE RunItems(_, _, _)

\* the two ifs after the wait loop: next step, or on with the stream's items
AfterWait(H, pending, had_server, cont, stop) ==
    IF had_server THEN Recurse(H)
    ELSE IF pending = <<>> THEN Recurse(H)
    ELSE RunItems(cont, H, stop)

\* top of the wait loop: done, stopped, or blocked in receive_text
WaitLoopTop(H, pending, had_server, cont, stop) ==
    IF pending = <<>> THEN AfterWait(H, pending, had_server, cont, stop)
    ELSE IF stop THEN StopInWait(H, pending)
    ELSE Block(H, pending, had_server, cont)

\* a tool_call_request item
Route(calls, H, cont, stop) ==
    IF calls = <<>>
    THEN Return(Send(H, "error", <<"Agent requested tool call but sent no tools.">>), TRUE)
    ELSE LET cat == Categorize(calls, H, <<>>, <<>>) IN
         IF cat.exit = "raise" THEN Raise(cat.h)
         ELSE IF cat.exit = "return" THEN Return(cat.h, TRUE)
         ELSE LET H1 == RunServerTools(cat.h, cat.server)
                  pending == DistinctIds(cat.client, <<>>)
              IN  IF cat.client # <<>>
                  THEN WaitLoopTop(
                           [H1 EXCEPT !.current_tool_calls = @ \cup CallIds(cat.client),
                                      !.out = Append(@, Ev("tool_call_request", <<>>,
                                                           cat.client, NoCost))],
                           pending, cat.server # <<>>, cont, stop)
                  ELSE AfterWait(H1, pending, cat.server # <<>>, cont, stop)

\* the loop over the items of agent.step, and the code after it
RunItems(ops, H, stop) ==
    IF ops = <<>>
    THEN Return(Send(H, "end", <<>>), TRUE)
    ELSE LET o == Head(ops) IN
         IF o.op = "append"
         THEN RunItems(Tail(ops), [H EXCEPT !.memory = Append(@, o.msg)], stop)
         ELSE IF stop THEN StopOnItem(H)
         ELSE IF o.type = "final_cost"
         THEN RunItems(Tail(ops), [H EXCEPT !.final_cost = o.cost], stop)
         ELSE IF o.type = "text"
         THEN RunItems(Tail(ops), Send(H, "chunk", o.content), stop)
         ELSE IF o.type = "tool_call_request"
         THEN Route(o.tool_calls, H, Tail(ops), stop)
         ELSE Return([H EXCEPT !.out = Append(@, Ev("error", o.content, <<>>, NoCost))],
                     TRUE)

\* the results of one tool_result message read in the wait loop
RECURSIVE WaitResults(_, _, _)
WaitResults(results, H, pending) ==
    IF results = <<>> THEN [h |-> H, pending |-> pending, denied |-> FALSE]
    ELSE LET r == Head(results) IN
         IF InSeq(r.tool_call_id, pending)
         THEN LET H1 == [ToolMsg(H, r.tool_call_id, r.content)
                            EXCEPT !.current_tool_calls = @ \ {r.tool_call_id}]
                  p1 == Remove(pending, r.tool_call_id)
              IN  IF InSeq(Denied[1], r.content)
                  THEN [h |-> H1, pending |-> p1, denied |-> TRUE]
                  ELSE WaitResults(Tail(results), H1, p1)
         ELSE WaitResults(Tail(results), H, pending)

\* ------------------------------------------------------------ state
VARIABLES
    memory,                        \* agent.memory
    pending_ask_user_tool_call_id, \* agent.pending_ask_user_tool_call_id
    stop_requested,                \* connection_state["stop_requested"]
    current_tool_calls,            \* connection_state["current_tool_calls"]
    total_cost,                    \* connection_state["total_cost"]
    out,                           \* events sent since the last main-loop input
    pc,                            \* where the connection's coroutine blocks
    stack,                         \* final_cost_from_agent of the calling frames
    w_pending,                     \* pending_tool_calls of the waiting frame
    w_had_server,                  \* whether its server_tool_calls is non-empty
    w_cont,                        \* what is left of its agent.step generator
    w_cost,                        \* its final_cost_from_agent
    nextId,                        \* next tool-call id the provider hands out
    nInv,                          \* model invocations for the current input
    lastIn,                        \* the inbound message consumed last
    stream,                        \* what the provider streamed last
    step_cost,                     \* step_cost of the main loop
    pending_questions              \* PENDING_AGENT_QUESTIONS[connection_key]

vars == <<memory, pending_ask_user_tool_call_id, stop_requested,
          current_tool_calls, total_cost, out, pc, stack, w_pending,
          w_had_server, w_cont, w_cost, nextId, nInv, lastIn, stream,
          step_cost, pending_questions>>

\* the accumulator's state, for the specification that runs it alone
VARIABLES
    f_pc,       \* "feed" while the stream runs, "done" after the final processing
    f_seen,     \* the fragments fed so far, in arrival order
    f_tcip,     \* tool_calls_in_progress
    f_reason,   \* captured_finish_reason
    f_ops       \* what the final processing appended and yielded

fragvars == <<f_pc, f_seen, f_tcip, f_reason, f_ops>>

\* no stream is being accumulated
FragIdle ==
    /\ f_pc = "feed" /\ f_seen = <<>> /\ f_tcip = <<>>
    /\ f_reason = "" /\ f_ops = <<>>

\* the connections of the server, for the specification that runs two of them
\* with the turn reduced to its outcome
VARIABLES
    ACTIVE_CONNECTIONS,      \* connection_key -> connection state
    PENDING_AGENT_QUESTIONS, \* connection_key -> request ids with a future
    futures,                 \* request id -> state of its asyncio.Future
    co,                      \* where each connection's coroutine is
    asking,                  \* request_id of the ask_human call that waits
    action_result,           \* what the last ask_human call returned
    peer,                    \* whether the client end is still open
    inbox,                   \* messages the client sent and the server has not read
    sends,                   \* how many messages the clients have sent
    sent,                    \* the types of the events sent to the client
    nextReq                  \* the next request id (uuid4)

connvars == <<ACTIVE_CONNECTIONS, PENDING_AGENT_QUESTIONS, futures, co, asking,
              action_result, peer, inbox, sends, sent, nextReq>>

Conns == {1, 2}
NoReq == 0

\* no connection has been opened
ConnIdle ==
    /\ ACTIVE_CONNECTIONS = << >>
    /\ PENDING_AGENT_QUESTIONS = << >>
    /\ futures = [r \in 1..MaxQuestions |-> "none"]
    /\ co = [c \in Conns |-> "none"]
    /\ asking = [c \in Conns |-> NoReq]
    /\ action_result = [c \in Conns |-> "none"]
    /\ peer = [c \in Conns |-> "none"]
    /\ inbox = [c \in Conns |-> <<>>]
    /\ sends = 0
    /\ sent = [c \in Conns |-> {}]
    /\ nextReq = 1

\* ChatAgent.step on the text of one stream, for the specification that runs
\* it alone
VARIABLES
    s_pc,       \* "new" before the agent has its model, "feed", then "done"
    s_model,    \* agent.model_name
    s_stream,   \* the chunks of the stream so far
    s_ops       \* what step appended and yielded for the whole stream

textvars == <<s_pc, s_model, s_stream, s_ops>>

\* no agent has been given a model
TextIdle ==
    /\ s_pc = "new" /\ s_model = <<>> /\ s_stream = <<>> /\ s_ops = <<>>

\* what an action of the engine leaves alone
notEngine == <<fragvars, connvars, textvars>>

\* what a main-loop branch without a turn leaves alone
engine == <<pc, stack, w_pending, w_had_server, w_cont, w_cost, nextId>>

In(type, at) == [type |-> type, at |-> at]

Provider(chunks, raises, cost_fails) ==
    [chunks |-> chunks, raises |-> raises, cost_fails |-> cost_fails, ids |-> 0]

NoStream == Provider(<<>>, "unset", FALSE)

\* ChatAgent.__init__ and the connection_state entry of a new chat
Init ==
    /\ memory = <<SystemPrompt>>
    /\ pending_ask_user_tool_call_id = NoId
    /\ stop_requested = FALSE
    /\ current_tool_calls = {}
    /\ total_cost = 0
    /\ out = <<>>
    /\ pc = "idle"
    /\ stack = <<>>
    /\ w_pending = <<>>
    /\ w_had_server = FALSE
    /\ w_cont = <<>>
    /\ w_cost = NoCost
    /\ nextId = 1
    /\ nInv = 0
    /\ lastIn = In("none", "idle")
    /\ stream = NoStream
    /\ step_cost = NoCost
    /\ pending_questions = {}
    /\ FragIdle
    /\ ConnIdle
    /\ TextIdle

\* ------------------------------------------------------------ inputs
\* what the provider streams for one invocation
TextChunks ==
    { <<Chunk(<<"hello">>, <<>>, ""), Chunk(<<>>, <<>>, "stop"), UsageChunk>>,
      <<Chunk(<<>>, <<>>, "stop")>>,
      <<Chunk(<<"hello">>, <<>>, "length")>>,
      <<Chunk(<<>>, <<>>, "length")>>,
      <<Chunk(<<"hello">>, <<>>, "")>> }

\* streams after which the cost calculation raises
CostFailChunks ==
    { <<Chunk(<<"hello">>, <<>>, ""), Chunk(<<>>, <<>>, "stop"), UsageChunk>> }

FallbackChunks ==
    { <<Chunk(<<"{", "run_bash_command", "}">>, <<>>, "stop")>> }

\* one tool per venue with well-formed arguments, the two whose arguments the
\* server parses with arguments that are not JSON, and search with the empty
\* object, on which perform_web_search(**{}) raises TypeError
VenueKinds ==
    { <<"search", ArgsFull>>, <<"run_bash_command", ArgsFull>>,
      <<"ask_user", ArgsFull>>, <<"terminate", ArgsFull>>,
      <<"browser_user", ArgsFull>> }

BadArgKinds ==
    { <<"search", ArgsBad>>, <<"ask_user", ArgsBad>>, <<"search", ArgsEmpty>> }

\* a raising server tool in one response with a client tool
MixedKinds == << <<"search", ArgsEmpty>>, <<"run_bash_command", ArgsFull>> >>

\* the fragments of call number i of a response: id and name with the first
\* piece of the arguments, then the rest of the arguments
CallFrags(i, id, kind) ==
    <<Chunk(<<>>, <<Frag(i - 1, id, kind[1], <<Head(kind[2])>>)>>, ""),
      Chunk(<<>>, <<Frag(i - 1, NoId, "", Tail(kind[2]))>>, "")>>

RECURSIVE CallChunks(_, _, _)
CallChunks(kinds, i, id0) ==
    IF i > Len(kinds) THEN <<Chunk(<<>>, <<>>, "tool_calls")>>
    ELSE CallFrags(i, id0 + i - 1, kinds[i]) \o CallChunks(kinds, i + 1, id0)

KindSeqs ==
    UNION { [1..n -> VenueKinds] : n \in 1..MaxCalls }
    \cup { <<k>> : k \in BadArgKinds }
    \cup { MixedKinds }

Providers(id0, room) ==
    { Provider(c, "none", FALSE) : c \in TextChunks }
    \cup { Provider(c, "none", TRUE) : c \in CostFailChunks }
    \cup { Provider(<<>>, r, FALSE) : r \in {"auth", "other"} }
    \cup { [Provider(CallChunks(k, 1, id0), "none", FALSE) EXCEPT !.ids = Len(k)] :
               k \in { ks \in KindSeqs : Len(ks) <= room } }
    \cup (IF room >= 1
          THEN { Provider(c, "none", FALSE) : c \in FallbackChunks }
               \cup { Provider(<<Chunk(<<>>, <<Frag(0, NoId, "search", ArgsFull)>>,
                                        "tool_calls")>>, "none", FALSE) }
          ELSE {})

\* what the client puts into a tool_result message
ResultContents == { <<"output">>, Denied }

KnownIds ==
    LET i == LastCallMsg(memory, Len(memory)) IN
    (IF i = 0 THEN {} ELSE CallIds(memory[i].tool_calls))
    \cup current_tool_calls \cup {BogusId}

\* request ids a user_response can carry
RequestIds == {"r1"}

Result(id, content) == [tool_call_id |-> id, content |-> content]

\* a tool_result message: one result, or one result for each id of a batch
\* the client was asked for, in the order of the request
Covering(ids, contents) ==
    IF ids = <<>> THEN {}
    ELSE { [i \in 1..Len(ids) |-> Result(ids[i], cs[i])] :
              cs \in [1..Len(ids) -> contents] }

ResultBatches(ids, contents) ==
    { <<Result(i, c)>> : i \in KnownIds, c \in contents }
    \cup Covering(ids, contents)

\* ------------------------------------------------------------ frames
Handler(cost) ==
    [memory |-> memory, out |-> out,
     pending_ask |-> pending_ask_user_tool_call_id,
     current_tool_calls |-> current_tool_calls, final_cost |-> cost]

\* return agent_finished, final_cost_from_agent if it is not None else
\* cost_from_nested, through the calling frames
RECURSIVE ReturnCost(_, _)
ReturnCost(frames, nested) ==
    IF frames = <<>> THEN nested
    ELSE ReturnCost(SubSeq(frames, 1, Len(frames) - 1),
                    IF frames[Len(frames)] # NoCost THEN frames[Len(frames)]
                    ELSE nested)

\* the main loop sends the total whatever run_agent_step_and_send returned
CostUpdateUnchecked(o, total, cost) ==
    Append(o, Ev("cost_update", <<>>, <<>>, total + cost))

\* the main loop after run_agent_step_and_send has returned step_cost
CostUpdate(o, total, cost) ==
    IF cost # NoCost
    THEN Append(o, Ev("cost_update", <<>>, <<>>, total + cost))
    ELSE o

NewTotal(total, cost) == IF cost # NoCost THEN total + cost ELSE total

\* the coroutine moves on to its next blocking point
Continue(R) ==
    /\ memory' = R.h.memory
    /\ pending_ask_user_tool_call_id' = R.h.pending_ask
    /\ current_tool_calls' = R.h.current_tool_calls
    /\ IF R.status = "return"
       THEN LET cost == ReturnCost(stack, R.h.final_cost) IN
            /\ pc' = "idle"
            /\ stack' = <<>>
            /\ step_cost' = cost
            /\ total_cost' = NewTotal(total_cost, cost)
            /\ out' = CostUpdate(R.h.out, total_cost, cost)
            /\ w_pending' = <<>> /\ w_had_server' = FALSE
            /\ w_cont' = <<>> /\ w_cost' = NoCost
       ELSE IF R.status = "recurse"
       THEN /\ pc' = "step"
            /\ stack' = Append(stack, R.h.final_cost)
            /\ out' = R.h.out
            /\ w_pending' = <<>> /\ w_had_server' = FALSE
            /\ w_cont' = <<>> /\ w_cost' = NoCost
            /\ UNCHANGED <<total_cost, step_cost>>
       ELSE /\ pc' = "wait"
            /\ out' = R.h.out
            /\ w_pending' = R.pending /\ w_had_server' = R.had_server
            /\ w_cont' = R.cont /\ w_cost' = R.h.final_cost
            /\ UNCHANGED <<stack, total_cost, step_cost>>

\* ------------------------------------------------------------ main loop
\* the main loop calls run_agent_step_and_send
StartTurn ==
    /\ pc' = "step"
    /\ stack' = <<>>
    /\ nInv' = 0 /\ stream' = NoStream /\ step_cost' = NoCost
    /\ UNCHANGED <<stop_requested, current_tool_calls, total_cost,
                   w_pending, w_had_server, w_cont, w_cost, nextId,
                   pending_questions>>

\* the main loop goes back to its receive without a turn
NoTurn ==
    /\ nInv' = 0 /\ stream' = NoStream /\ step_cost' = NoCost
    /\ UNCHANGED engine

\* user_message with a text
UserMessage ==
    /\ pc = "idle" /\ Len(memory) <= MaxMem
    /\ lastIn' = In("user_message", "idle")
    /\ out' = <<>>
    /\ IF pending_ask_user_tool_call_id # NoId
       THEN /\ memory' = add_message_to_memory(memory, "tool", TRUE, <<"user_text">>,
                                               <<>>, pending_ask_user_tool_call_id)
            /\ pending_ask_user_tool_call_id' = NoId
       ELSE /\ memory' = add_message_to_memory(memory, "user", TRUE, <<"user_text">>,
                                               <<>>, NoId)
            /\ UNCHANGED pending_ask_user_tool_call_id
    /\ StartTurn
    /\ UNCHANGED notEngine

RECURSIVE AddResults(_, _)
AddResults(mem, results) ==
    IF results = <<>> THEN mem
    ELSE AddResults(
             IF Head(results).tool_call_id # NoId
             THEN add_message_to_memory(mem, "tool", TRUE, Head(results).content,
                                        <<>>, Head(results).tool_call_id)
             ELSE mem,
             Tail(results))

ExpectedIds(mem) ==
    LET i == LastCallMsg(mem, Len(mem)) IN
    IF i = 0 THEN {} ELSE CallIds(mem[i].tool_calls)

ReceivedIds(results) ==
    {results[i].tool_call_id : i \in 1..Len(results)} \ {NoId}

\* tool_result with a list of results
ToolResult ==
    /\ pc = "idle" /\ Len(memory) <= MaxMem
    /\ \E results \in ResultBatches(LastCallIds(memory), {<<"output">>}) :
          /\ lastIn' = In("tool_result", "idle")
          /\ out' = <<>>
          /\ memory' = AddResults(memory, results)
          /\ UNCHANGED pending_ask_user_tool_call_id
          /\ IF ExpectedIds(memory) \ ReceivedIds(results) # {}
             THEN /\ NoTurn
                  /\ UNCHANGED <<stop_requested, current_tool_calls, total_cost,
                                 pending_questions>>
             ELSE StartTurn
    /\ UNCHANGED notEngine

\* user_response with a request id and an answer
UserResponse ==
    /\ pc = "idle"
    /\ \E request_id \in RequestIds :
          LET future == {q \in pending_questions : q.id = request_id} IN
          IF \E q \in future : ~q.done
          THEN /\ pending_questions' =
                      (pending_questions \ future) \cup {[id |-> request_id, done |-> TRUE]}
               /\ out' = <<>>
          ELSE IF future # {}
          THEN /\ out' = <<>>
               /\ UNCHANGED pending_questions
          ELSE /\ out' = <<Ev("warning", <<"unknown or expired request ID">>, <<>>, NoCost)>>
               /\ UNCHANGED pending_questions
    /\ lastIn' = In("user_response", "idle")
    /\ NoTurn
    /\ UNCHANGED <<memory, pending_ask_user_tool_call_id, stop_requested,
                   current_tool_calls, total_cost>>
    /\ UNCHANGED notEngine

\* stop without the reset at the end of the branch
StopKeepsFlag ==
    /\ pc = "idle"
    /\ lastIn' = In("stop", "idle")
    /\ out' = <<Ev("info", <<"Stop request received">>, <<>>, NoCost)>>
    /\ stop_requested' = TRUE
    /\ NoTurn
    /\ UNCHANGED <<memory, pending_ask_user_tool_call_id, current_tool_calls,
                   total_cost, pending_questions>>
    /\ UNCHANGED notEngine

\* stop: the flag is set, the acknowledgement sent, the flag reset
Stop ==
    /\ pc = "idle"
    /\ lastIn' = In("stop", "idle")
    /\ out' = <<Ev("info", <<"Stop request received">>, <<>>, NoCost)>>
    /\ stop_requested' = FALSE
    /\ NoTurn
    /\ UNCHANGED <<memory, pending_ask_user_tool_call_id, current_tool_calls,
                   total_cost, pending_questions>>
    /\ UNCHANGED notEngine

\* a message that is not JSON, has an unknown type, or lacks its fields
BadMessage ==
    /\ pc = "idle"
    /\ lastIn' = In("bad", "idle")
    /\ out' = <<Ev("error", <<"invalid message">>, <<>>, NoCost)>>
    /\ NoTurn
    /\ UNCHANGED <<memory, pending_ask_user_tool_call_id, stop_requested,
                   current_tool_calls, total_cost, pending_questions>>
    /\ UNCHANGED notEngine

\* ------------------------------------------------------------ turn engine
\* one model invocation: the stream is consumed and the frame runs on to its
\* next blocking point
AgentStep ==
    /\ pc = "step"
    /\ \E prov \in Providers(nextId, MaxMem - Len(memory)) :
          /\ Continue(RunItems(step(get_llm_response_stream(memory, prov),
                                    FALSE, stop_requested),
                               Handler(NoCost), stop_requested))
          /\ nextId' = nextId + prov.ids
          /\ stream' = prov
    /\ nInv' = nInv + 1
    /\ UNCHANGED <<stop_requested, lastIn, pending_questions>>
    /\ UNCHANGED notEngine

\* the wait loop reads a tool_result
WaitToolResult ==
    /\ pc = "wait"
    /\ \E results \in ResultBatches(w_pending, ResultContents) :
          LET W == WaitResults(results, Handler(w_cost), w_pending) IN
          Continue(IF W.denied THEN Recurse(W.h)
                   ELSE WaitLoopTop(W.h, W.pending, w_had_server, w_cont,
                                    stop_requested))
    /\ lastIn' = In("tool_result", "wait")
    /\ UNCHANGED <<stop_requested, nextId, nInv, stream, pending_questions>>
    /\ UNCHANGED notEngine

\* a user_message read in the wait loop is handled as the main loop handles
\* it: appended, with a turn of its own
WaitOtherStartsTurn ==
    /\ pc = "wait" /\ Len(memory) <= MaxMem
    /\ lastIn' = In("user_message", "wait")
    /\ memory' = add_message_to_memory(memory, "user", TRUE, <<"user_text">>,
                                       <<>>, NoId)
    /\ StartTurn
    /\ UNCHANGED <<pending_ask_user_tool_call_id, out>>
    /\ UNCHANGED notEngine

\* the wait loop reads a message of another type and drops it
WaitOther ==
    /\ pc = "wait"
    /\ \E t \in {"user_message", "stop", "user_response"} :
          lastIn' = In(t, "wait")
    /\ Continue(WaitLoopTop(Handler(w_cost), w_pending, w_had_server, w_cont,
                            stop_requested))
    /\ UNCHANGED <<stop_requested, nextId, nInv, stream, pending_questions>>
    /\ UNCHANGED notEngine

\* the wait loop reads text that is not JSON: the except clause drops the
\* pending ids from the tracking set and leaves the loop
WaitInvalid ==
    /\ pc = "wait"
    /\ lastIn' = In("bad", "wait")
    /\ Continue(AfterWait([Handler(w_cost) EXCEPT
                               !.current_tool_calls = @ \ {w_pending[i] : i \in 1..Len(w_pending)}],
                          w_pending, w_had_server, w_cont, stop_requested))
    /\ UNCHANGED <<stop_requested, nextId, nInv, stream, pending_questions>>
    /\ UNCHANGED notEngine

Next ==
    \/ UserMessage
    \/ ToolResult
    \/ UserResponse
    \/ Stop
    \/ BadMessage
    \/ AgentStep
    \/ WaitToolResult
    \/ WaitOther
    \/ WaitInvalid

\* ------------------------------------------------------------ the stop flag
\* connection_state["stop_requested"] becomes True while a turn is in flight.
\* The receive loop sets the flag and resets it within one branch
\* (main.py:361-371) and does not run while run_agent_step_and_send does, so
\* under Spec no checkpoint sees the flag set; this step stands for a writer
\* of the flag that runs beside the turn, and StopSpec is the engine with it.
RaiseStop ==
    /\ pc \in {"step", "wait"} /\ ~stop_requested
    /\ stop_requested' = TRUE
    /\ UNCHANGED <<memory, pending_ask_user_tool_call_id, current_tool_calls,
                   total_cost, out, pc, stack, w_pending, w_had_server, w_cont,
                   w_cost, nextId, nInv, lastIn, stream, step_cost,
                   pending_questions>>
    /\ UNCHANGED notEngine

StopNext == Next \/ RaiseStop

\* ------------------------------------------------------------ the accumulator alone
\* ChatAgent.step's handling of tool-call fragments, fed one fragment at a
\* time with any fragment a provider stream can carry, and finalized with the
\* finish reason the stream ended on
FragIds == {NoId, 7}
FragNames == {"", "search", "terminate"}
FragArgs == {<<>>, <<"a">>, <<"b">>}

\* delta.tool_calls entries: index, id or None, name or None, arguments or
\* None. Index 0 carries every combination; index 1 carries the fragments of
\* a second call: id and name with arguments, or arguments alone
Frags ==
    { Frag(0, id, n, a) : id \in FragIds, n \in FragNames, a \in FragArgs }
    \cup { Frag(1, 8, "terminate", a) : a \in FragArgs \ {<<>>} }
    \cup { Frag(1, NoId, "", a) : a \in FragArgs \ {<<>>} }

\* the next fragment of the stream arrives
FragFeed ==
    /\ f_pc = "feed" /\ Len(f_seen) < MaxFrags
    /\ \E f \in Frags :
          /\ f_seen' = Append(f_seen, f)
          /\ f_tcip' = AccumulateFragment(f_tcip, f)
    /\ UNCHANGED <<f_pc, f_reason, f_ops, vars, connvars,
                   textvars>>

\* the stream ends and the code after the loop runs
FragFinish ==
    /\ f_pc = "feed"
    /\ \E r \in {"tool_calls", "stop"} :
          /\ f_reason' = r
          /\ f_ops' = StepFinish([StepLocals EXCEPT
                                      !.tool_calls_in_progress = f_tcip,
                                      !.captured_finish_reason = r], FALSE)
    /\ f_pc' = "done"
    /\ UNCHANGED <<f_seen, f_tcip, vars, connvars,
                   textvars>>

FragNext == FragFeed \/ FragFinish

allvars == <<vars, fragvars, connvars, textvars>>

Spec == Init /\ [][Next]_allvars

StopSpec == Init /\ [][StopNext]_allvars

FragSpec == Init /\ [][FragNext]_allvars

\* ------------------------------------------------------------ the text of a stream
\* ChatAgent.step on a stream of content chunks, for an agent whose model
\* name does or does not start with "ollama/". A model name is the sequence
\* of its provider prefix and the rest
ModelNames == { <<"gpt-4.1-mini">>, <<"ollama/", "llama3">> }

\* self.model_name.startswith("ollama/")
is_ollama_model(name) == name # <<>> /\ Head(name) = "ollama/"

\* delta.content of one chunk
Tokens == {"{", "}", "search", " ", "hello"}

\* how a stream ends: with a finish reason on its last chunk, which for
\* tool_calls may carry a tool-call fragment, or without any
LastChunks ==
    { Chunk(<<>>, <<>>, r) : r \in {"stop", "length", "tool_calls"} }
    \cup { Chunk(<<>>, <<Frag(0, 7, "search", ArgsFull)>>, "tool_calls") }

\* ChatAgent(model_name), set_model
TextStart ==
    /\ s_pc = "new"
    /\ \E m \in ModelNames : s_model' = m
    /\ s_pc' = "feed"
    /\ UNCHANGED <<s_stream, s_ops, vars, fragvars, connvars>>

\* the provider streams one more content chunk
TextFeed ==
    /\ s_pc = "feed" /\ Len(s_stream) < MaxChunks
    /\ \E t \in Tokens : s_stream' = Append(s_stream, Chunk(<<t>>, <<>>, ""))
    /\ UNCHANGED <<s_pc, s_model, s_ops, vars, fragvars, connvars>>

\* the stream ends, with or without a last chunk, and step has run over it
TextFinish ==
    /\ s_pc = "feed"
    /\ \E last \in {<<c>> : c \in LastChunks} \cup {<<>>} :
          /\ s_stream' = s_stream \o last
          /\ s_ops' = step(get_llm_response_stream(
                                <<SystemPrompt>>,
                                Provider(s_stream \o last, "none", FALSE)),
                            is_ollama_model(s_model), FALSE)
    /\ s_pc' = "done"
    /\ UNCHANGED <<s_model, vars, fragvars, connvars>>

TextNext == TextStart \/ TextFeed \/ TextFinish

TextSpec == Init /\ [][TextNext]_allvars

\* ------------------------------------------------------------ connections
\* websocket_endpoint for two clients. A turn is reduced to what it does to
\* the shared dictionaries: the model answers with text, or it calls
\* browser_user and the browser agent runs, asking the human questions as it
\* goes. The second outcome takes the branch of handler.py:117-125, which
\* runs only where SERVER_EXECUTABLE_TOOLS maps browser_user to
\* execute_browser_task, the entry that base.py:437 holds commented out.
DictPut(d, k, v) == [x \in DOMAIN d \cup {k} |-> IF x = k THEN v ELSE d[x]]
DictDel(d, k) == [x \in DOMAIN d \ {k} |-> d[x]]

\* ACTIVE_CONNECTIONS[connection_key] of a new chat
NewConnection == [memory |-> <<"system">>, stop_requested |-> FALSE]

\* the state a connection's code works on
ConnState ==
    [active |-> ACTIVE_CONNECTIONS, pending |-> PENDING_AGENT_QUESTIONS,
     futures |-> futures, co |-> co, asking |-> asking,
     action_result |-> action_result, sent |-> sent, nextReq |-> nextReq]

Remember(S, c, tag) == [S EXCEPT !.active[c].memory = Append(@, tag)]
SendTo(S, c, type) == [S EXCEPT !.sent[c] = @ \cup {type}]

\* ask_human_via_websocket stores the future before it sends the question
AskStore(pq, key, rid) ==
    DictPut(pq, key, (IF key \in DOMAIN pq THEN pq[key] ELSE {}) \cup {rid})

\* the finally clause leaves the entry in the dictionary
AskCleanupSkipped(pq, key, rid) == pq

\* the finally clause of ask_human_via_websocket
AskCleanup(pq, key, rid) ==
    IF key \in DOMAIN pq /\ rid \in pq[key]
    THEN IF pq[key] \ {rid} = {} THEN DictDel(pq, key)
         ELSE DictPut(pq, key, pq[key] \ {rid})
    ELSE pq

\* future.cancel() on every future of the connection that is not done
CancelFutures(fut, pq, key) ==
    [r \in DOMAIN fut |->
        IF key \in DOMAIN pq /\ r \in pq[key] /\ fut[r] = "pending"
        THEN "cancelled" ELSE fut[r]]

\* the futures of every connection are cancelled and the dictionary emptied
CancelQuestionsOfAll(S, key) ==
    [S EXCEPT !.futures = [r \in DOMAIN S.futures |->
                              IF S.futures[r] = "pending" THEN "cancelled"
                              ELSE S.futures[r]],
              !.pending = << >>]

\* the futures of the connection are cancelled and its dictionary deleted: the
\* finally clause of execute_browser_task, and the second half of the finally
\* clause of websocket_endpoint
CancelQuestions(S, key) ==
    [S EXCEPT !.futures = CancelFutures(S.futures, S.pending, key),
              !.pending = DictDel(S.pending, key)]

\* the entry stays in the registry
RemoveConnectionSkipped(S, key) == S

\* the first half of the finally clause of websocket_endpoint
RemoveConnection(S, key) == [S EXCEPT !.active = DictDel(S.active, key)]

\* the finally clause of websocket_endpoint: the coroutine is over
EndpointCleanup(S, key) ==
    [CancelQuestions(RemoveConnection(S, key), key) EXCEPT
         !.co[key] = "ended", !.asking[key] = NoReq]

\* asyncio.wait_for(future, timeout=300.0) returns: the result, the
\* cancellation of the future, or the timeout
WaitFor(state) ==
    IF state = "result" THEN "answer"
    ELSE IF state = "cancelled" THEN "cancelled"
    ELSE "timeout"

\* one model invocation of the turn and what follows it up to the next
\* point where the coroutine blocks. raises: the client end is gone and the
\* send on it raises, which ends the coroutine at its next receive
Invocation(S, c, outcome, raises) ==
    IF outcome = "text"
    THEN IF raises THEN EndpointCleanup(S, c)
         ELSE SendTo(Remember(S, c, "assistant"), c, "end")
    ELSE [Remember(S, c, "browser_user") EXCEPT !.co[c] = "browse"]

\* what the model can answer with: text, or a call of browser_user while the
\* conversation holds less than MaxQuestions of them
Outcomes(S, c) ==
    {"text"} \cup
    (IF Cardinality({i \in 1..Len(S.active[c].memory) :
                        S.active[c].memory[i] = "browser_user"}) < MaxQuestions
     THEN {"browser_user"} ELSE {})

\* whether a send raises: never while the client end is open
Raising(c) == IF peer[c] = "open" THEN {FALSE} ELSE {FALSE, TRUE}

Become(S) ==
    /\ ACTIVE_CONNECTIONS' = S.active
    /\ PENDING_AGENT_QUESTIONS' = S.pending
    /\ futures' = S.futures
    /\ co' = S.co
    /\ asking' = S.asking
    /\ action_result' = S.action_result
    /\ sent' = S.sent
    /\ nextReq' = S.nextReq

\* websocket_endpoint up to the receive loop
ConnOpen(c) ==
    /\ co[c] = "none"
    /\ ACTIVE_CONNECTIONS' = DictPut(ACTIVE_CONNECTIONS, c, NewConnection)
    /\ co' = [co EXCEPT ![c] = "receive"]
    /\ peer' = [peer EXCEPT ![c] = "open"]
    /\ UNCHANGED <<PENDING_AGENT_QUESTIONS, futures, asking, action_result,
                   inbox, sends, sent, nextReq, vars, fragvars, textvars>>

\* what a client sends: user_message, stop, and user_response with the
\* request id of a question that has been asked, on whichever connection
ClientMessages ==
    {[type |-> "user_message", request_id |-> NoReq],
     [type |-> "stop", request_id |-> NoReq]}
    \cup {[type |-> "user_response", request_id |-> r] : r \in 1..(nextReq - 1)}

\* the client sends a message
ClientSend(c) ==
    /\ peer[c] = "open" /\ sends < MaxSends
    /\ \E m \in ClientMessages : inbox' = [inbox EXCEPT ![c] = Append(@, m)]
    /\ sends' = sends + 1
    /\ UNCHANGED <<ACTIVE_CONNECTIONS, PENDING_AGENT_QUESTIONS, futures, co,
                   asking, action_result, peer, sent, nextReq, vars, fragvars, textvars>>

\* the client closes the connection
ClientClose(c) ==
    /\ peer[c] = "open"
    /\ peer' = [peer EXCEPT ![c] = "gone"]
    /\ UNCHANGED <<ACTIVE_CONNECTIONS, PENDING_AGENT_QUESTIONS, futures, co,
                   asking, action_result, inbox, sends, sent, nextReq, vars,
                   fragvars, textvars>>

\* the receive loop reads the next message
Reads(c, type) ==
    /\ co[c] = "receive"
    /\ inbox[c] # <<>> /\ Head(inbox[c]).type = type
    /\ inbox' = [inbox EXCEPT ![c] = Tail(@)]
    /\ UNCHANGED <<peer, sends, vars, fragvars, textvars>>

\* user_message: the turn runs inside the branch
ConnUserMessage(c) ==
    /\ Reads(c, "user_message")
    /\ \E o \in Outcomes(ConnState, c), r \in Raising(c) :
          Become(Invocation(Remember(ConnState, c, "user"), c, o, r))

\* user_response: the future of the request id, looked up under this
\* connection's key
ConnUserResponse(c) ==
    /\ Reads(c, "user_response")
    /\ LET rid == Head(inbox[c]).request_id
           known == c \in DOMAIN PENDING_AGENT_QUESTIONS
                    /\ rid \in PENDING_AGENT_QUESTIONS[c]
       IN  IF known /\ futures[rid] = "pending"
           THEN Become([ConnState EXCEPT !.futures[rid] = "result"])
           ELSE IF known
           THEN Become(ConnState)
           ELSE \E r \in Raising(c) :
                   Become(IF r THEN EndpointCleanup(ConnState, c)
                          ELSE SendTo(ConnState, c, "warning"))

\* stop: the flag is set, info is sent, the flag is reset
ConnStop(c) ==
    /\ Reads(c, "stop")
    /\ \E r \in Raising(c) :
          Become(IF r THEN EndpointCleanup(ConnState, c)
                 ELSE SendTo(ConnState, c, "info"))

\* receive_text raises WebSocketDisconnect
ConnDisconnect(c) ==
    /\ co[c] = "receive" /\ inbox[c] = <<>> /\ peer[c] = "gone"
    /\ Become(EndpointCleanup(ConnState, c))
    /\ UNCHANGED <<peer, inbox, sends, vars, fragvars, textvars>>

\* the browser agent calls ask_human_via_websocket: the future is stored and
\* the question sent; a send that raises ends the call with an error
BrowseAsk(c) ==
    /\ co[c] = "browse" /\ nextReq <= MaxQuestions
    /\ LET rid == nextReq
           S1 == [ConnState EXCEPT !.pending = AskStore(@, c, rid),
                                   !.nextReq = rid + 1]
       IN  \E r \in Raising(c) :
              Become(IF r
                     THEN [S1 EXCEPT !.futures[rid] = "exception",
                                     !.pending = AskCleanup(@, c, rid),
                                     !.action_result[c] = "error"]
                     ELSE [SendTo(S1, c, "agent_question") EXCEPT
                               !.futures[rid] = "pending",
                               !.asking[c] = rid,
                               !.co[c] = "ask"])
    /\ UNCHANGED <<peer, inbox, sends, vars, fragvars, textvars>>

\* wait_for returns in ask_human_via_websocket and the browser agent goes on
\* with the answer, or with the error that tells of the timeout
AskResume(c) ==
    /\ co[c] = "ask"
    /\ LET rid == asking[c]
           how == WaitFor(futures[rid])
           S1 == [ConnState EXCEPT
                      !.futures[rid] = IF how = "timeout" THEN "cancelled" ELSE @,
                      !.pending = AskCleanup(@, c, rid),
                      !.asking[c] = NoReq,
                      !.action_result[c] = how,
                      !.co[c] = "browse"]
       IN  Become(IF how = "cancelled"
                  THEN EndpointCleanup(CancelQuestions(S1, c), c)
                  ELSE S1)
    /\ UNCHANGED <<peer, inbox, sends, vars, fragvars, textvars>>

\* execute_browser_task returns: its result is appended as the tool message
\* and the engine recurses into the next model invocation
BrowseDone(c) ==
    /\ co[c] = "browse"
    /\ \E o \in Outcomes(ConnState, c), r \in Raising(c) :
          Become(Invocation(
              Remember([CancelQuestions(ConnState, c) EXCEPT
                            !.co[c] = "receive"], c, "tool"), c, o, r))
    /\ UNCHANGED <<peer, inbox, sends, vars, fragvars, textvars>>

\* the steps of the coroutine of connection c
ServerStep(c) ==
    \/ ConnUserMessage(c)
    \/ ConnUserResponse(c)
    \/ ConnStop(c)
    \/ ConnDisconnect(c)
    \/ BrowseAsk(c)
    \/ AskResume(c)
    \/ BrowseDone(c)

ConnNext ==
    \E c \in Conns :
        \/ ConnOpen(c)
        \/ ClientSend(c)
        \/ ClientClose(c)
        \/ ServerStep(c)

ConnSpec == Init /\ [][ConnNext]_allvars

\* the event loop runs the timer of wait_for(future, timeout=300.0): a call
\* of ask_human_via_websocket that waits is resumed
ConnFairSpec == ConnSpec /\ \A c \in Conns : WF_allvars(AskResume(c))

\* ------------------------------------------------------------ events of a turn
Terminal == {"end", "error", "ask_user_request", "terminate_request"}

TerminalAt(o) == {i \in 1..Len(o) : o[i].type \in Terminal}

\* the main loop has read an input, run the engine on it, and is back
TurnDone == pc = "idle" /\ nInv > 0

\* ids the client was asked to run since the last main-loop input
Dispatched(o) ==
    UNION {CallIds(o[i].tool_calls) :
              i \in {j \in 1..Len(o) : o[j].type = "tool_call_request"}}

AssistantCallIds(mem, n) ==
    UNION {CallIds(mem[j].tool_calls) :
              j \in {k \in 1..n : mem[k].role = "assistant"}}

\* ------------------------------------------------------------ claims
\* C1: every tool-role message of the conversation carries a tool_call_id
\* that is the id of a tool call of an assistant message at a smaller index.
C1_ToolResultAnswersEarlierCall ==
    \A i \in 1..Len(memory) :
        memory[i].role = "tool" =>
            memory[i].tool_call_id \in AssistantCallIds(memory, i - 1)

\* C2: whenever a model stream is about to be requested, every tool call id
\* of every assistant message has a tool-role message with that id.
C2_StepStartsWithEveryCallAnswered ==
    pc = "step" =>
        \A id \in AssistantCallIds(memory, Len(memory)) : HasToolResult(memory, id)

C4_NoInvocationBeforeAllResults ==
    pc = "step" /\ lastIn = In("tool_result", "wait") =>
        \A id \in Dispatched(out) : HasToolResult(memory, id)

\* C5: a stop read while client tool results are awaited ends the turn: every
\* call of the batch has a result, info and end are sent, the engine is back
\* in the main loop.
C5_StopInWaitCancelsTheTurn ==
    lastIn = In("stop", "wait") =>
        /\ pc = "idle"
        /\ \A id \in Dispatched(out) : HasToolResult(memory, id)
        /\ \E i \in 1..(Len(out) - 1) :
               out[i].type = "info" /\ out[i + 1].type = "end"

\* the flow-control call the routing loop reaches first, if any
RECURSIVE FlowCall(_)
FlowCall(calls) ==
    IF calls = <<>> THEN ToolCall(NoId, "", <<>>)
    ELSE IF Head(calls).name \in {"ask_user", "terminate"} THEN Head(calls)
    ELSE FlowCall(Tail(calls))

\* the turn is over and its last response asked the user a question
AskedUser ==
    /\ TurnDone
    /\ memory[Len(memory)].role = "assistant"
    /\ FlowCall(memory[Len(memory)].tool_calls).name = "ask_user"

\* C6: after a turn that ask_user with call id X ended, X is the pending
\* marker; a user_message read while the marker is X is appended as a tool
\* message with tool_call_id X and clears the marker; a user_message read
\* while there is no marker is appended with role user.
C6_AnswerToAskUserIsToolMessage ==
    /\ [](AskedUser /\ out[Len(out)].type = "ask_user_request" =>
             pending_ask_user_tool_call_id =
                 FlowCall(memory[Len(memory)].tool_calls).id)
    /\ [][pc = "idle" /\ lastIn' = In("user_message", "idle") /\ pc' = "step" =>
             /\ pending_ask_user_tool_call_id' = NoId
             /\ memory' = Append(memory,
                     IF pending_ask_user_tool_call_id # NoId
                     THEN Msg("tool", TRUE, <<"user_text">>, <<>>,
                              pending_ask_user_tool_call_id)
                     ELSE Msg("user", TRUE, <<"user_text">>, <<>>, NoId))]_vars

\* the answer to an ask_user call sits behind it as a tool message, and the
\* user_message after the answer sits behind that with role user
C6_Witness ==
    \E i \in 1..(Len(memory) - 2) :
        /\ memory[i].role = "assistant"
        /\ FlowCall(memory[i].tool_calls).name = "ask_user"
        /\ memory[i + 1].role = "tool"
        /\ memory[i + 1].tool_call_id = FlowCall(memory[i].tool_calls).id
        /\ memory[i + 1].content = <<"user_text">>
        /\ memory[i + 2].role = "user"
        /\ pending_ask_user_tool_call_id = NoId

\* the question of the ask_user call that ended the turn
Question == JsonGet(FlowCall(memory[Len(memory)].tool_calls).arguments, "")

\* C7 as stated: ask_user with a question q makes the engine send
\* ask_user_request carrying q and then end.
C7_AskUserRequestThenEnd ==
    AskedUser /\ FlowCall(memory[Len(memory)].tool_calls).arguments = ArgsFull =>
        /\ Len(out) >= 2
        /\ out[Len(out) - 1] = Ev("ask_user_request", <<Question>>, <<>>, NoCost)
        /\ out[Len(out)].type = "end"

\* C7 as amended: ask_user with a question q makes the engine send
\* ask_user_request carrying q as the last event of the turn, and no end.
C7_AskUserRequestEndsTurn ==
    AskedUser /\ FlowCall(memory[Len(memory)].tool_calls).arguments = ArgsFull =>
        /\ out # <<>>
        /\ out[Len(out)] = Ev("ask_user_request", <<"value">>, <<>>, NoCost)
        /\ \A i \in 1..Len(out) : out[i].type # "end"

\* a turn that a question to the user ended, after a client tool ran
C7_Witness ==
    /\ AskedUser /\ nInv = 2
    /\ FlowCall(memory[Len(memory)].tool_calls).arguments = ArgsFull
    /\ out[Len(out)].type = "ask_user_request"

\* the stream ends with finish reason stop and carries no text at all
EmptyStop(prov) ==
    /\ prov.raises = "none" /\ prov.chunks # <<>>
    /\ \A i \in 1..Len(prov.chunks) :
           prov.chunks[i].content = <<>> /\ prov.chunks[i].tool_calls = <<>>
    /\ \E i \in 1..Len(prov.chunks) :
           /\ prov.chunks[i].finish_reason = "stop"
           /\ \A j \in (i + 1)..Len(prov.chunks) : prov.chunks[j].finish_reason = ""

\* C9: a model stream that ends with finish reason stop and no text makes the
\* invocation append one assistant message without content, send no chunk,
\* send end and return to the main loop.
C9_EmptyStopAppendsMessageWithoutContent ==
    [][pc = "step" /\ EmptyStop(stream') =>
          /\ memory' = Append(memory, Msg("assistant", FALSE, <<>>, <<>>, NoId))
          /\ pc' = "idle"
          /\ Len(out') > Len(out)
          /\ SubSeq(out', 1, Len(out)) = out
          /\ out'[Len(out) + 1].type = "end"
          /\ \A i \in (Len(out) + 1)..Len(out') : out'[i].type # "chunk"]_vars

\* a turn whose only stream was empty with reason stop is over
C9_Witness ==
    /\ TurnDone /\ nInv = 1 /\ EmptyStop(stream)
    /\ memory[Len(memory)].role = "assistant"
    /\ ~memory[Len(memory)].has_content
    /\ \E i \in 1..Len(out) : out[i].type = "end"

StreamFailed == stream.raises \in {"auth", "other"}

\* C11: a turn that a user_message started and whose model stream yielded an
\* error terminator is over with an assistant message carrying an explanation
\* as the last message of the conversation and with exactly one error event
\* sent.
C11_StreamErrorAppendsAssistantMessage ==
    TurnDone /\ StreamFailed /\ lastIn = In("user_message", "idle") =>
        /\ memory[Len(memory)].role = "assistant"
        /\ memory[Len(memory)].has_content
        /\ Cardinality({i \in 1..Len(out) : out[i].type = "error"}) = 1

\* the requested tool name is in none of the venues of the routing loop
UnknownTool(c) ==
    c.name \notin ServerTools \cup ClientTools \cup {"ask_user", "terminate"}

\* C13: when the last response of the model requested only tools that are in
\* none of the venues, an error event is sent and the engine is back in the
\* main loop without a further model invocation.
C13_UnknownToolEndsTurnWithError ==
    /\ nInv > 0
    /\ memory[Len(memory)].role = "assistant"
    /\ memory[Len(memory)].tool_calls # <<>>
    /\ \A i \in 1..Len(memory[Len(memory)].tool_calls) :
           UnknownTool(memory[Len(memory)].tool_calls[i])
    => /\ pc = "idle"
       /\ \E i \in 1..Len(out) : out[i].type = "error"

\* C14: no assistant message of the conversation carries more than one tool
\* call, and no more than one dispatched client tool call is awaited.
C14_AtMostOneToolCallPerResponse ==
    /\ \A i \in 1..Len(memory) : Len(memory[i].tool_calls) <= 1
    /\ Len(w_pending) <= 1

\* the server-executed calls of a response whose execution fails: the
\* arguments are not JSON, or the function raises on them
FailingServerCalls(calls) ==
    { i \in 1..Len(calls) :
          calls[i].name \in ServerTools /\ calls[i].arguments # ArgsFull }

\* the response appended at index n carries tool calls that are executed:
\* some fail on the server and none is ask_user or terminate
ServerFailure(mem, n) ==
    /\ Len(mem) >= n
    /\ mem[n].role = "assistant"
    /\ FailingServerCalls(mem[n].tool_calls) # {}
    /\ FlowCall(mem[n].tool_calls).name = ""

\* C12: when a model invocation's response carries a server-executed tool
\* call whose arguments are not JSON or whose function raises, the invocation
\* appends a tool message with that call's id and an error string as content,
\* sends neither error nor end, and goes on to the next model invocation, at
\* once or after the results of the client tools of the same response; only
\* stop keeps that next invocation from starting.
C12_ServerToolFailureBecomesToolResult ==
    /\ [][pc = "step" /\ ServerFailure(memory', Len(memory) + 1) =>
             LET calls == memory'[Len(memory) + 1].tool_calls IN
             /\ \A i \in FailingServerCalls(calls) :
                    \E j \in (Len(memory) + 2)..Len(memory') :
                        memory'[j] = Msg("tool", TRUE, <<"Error executing tool">>,
                                         <<>>, calls[i].id)
             /\ \A i \in (Len(out) + 1)..Len(out') :
                    out'[i].type \notin {"error", "end"}
             /\ pc' = IF \E i \in 1..Len(calls) : calls[i].name \in ClientTools
                      THEN "wait" ELSE "step"]_vars
    /\ [][pc = "wait" /\ w_had_server /\ lastIn'.type # "stop" => pc' # "idle"]_vars

\* a search call with unparsable arguments has been answered with the error
\* string and the next model invocation is about to start
C12_Witness ==
    /\ pc = "step" /\ nInv = 1
    /\ ServerFailure(memory, Len(memory) - 1)
    /\ memory[Len(memory) - 1].tool_calls[1].arguments = ArgsBad
    /\ memory[Len(memory)] =
           Msg("tool", TRUE, <<"Error executing tool">>, <<>>,
               memory[Len(memory) - 1].tool_calls[1].id)
    /\ out = <<>>

\* the cost_update events sent since the last external input was read
CostUpdates == {i \in 1..Len(out) : out[i].type = "cost_update"}

\* C18: for one external input at most one cost_update is sent, and when the
\* turn returns to the main loop the accumulated cost has grown by the one
\* figure run_agent_step_and_send returned: nothing, or the cost of the last
\* model invocation alone (0 when its calculation failed), however many
\* invocations the turn made; the cost_update carries the new total.
C18_OneCostFigurePerInput ==
    /\ [](Cardinality(CostUpdates) <= 1)
    /\ [][pc # "idle" /\ pc' = "idle" =>
             /\ step_cost' \in {NoCost, 0} \cup
                    {PromptCost(SubSeq(memory, 1, k)) : k \in 1..Len(memory)}
             /\ pc = "step" => step_cost' \in {NoCost, 0, PromptCost(memory)}
             /\ total_cost' = total_cost + (IF step_cost' = NoCost THEN 0
                                            ELSE step_cost')
             /\ step_cost' # NoCost =>
                    out'[Len(out')] = Ev("cost_update", <<>>, <<>>, total_cost')
             /\ step_cost' = NoCost =>
                    \A i \in 1..Len(out') : out'[i].type # "cost_update"]_vars

\* a turn of two model invocations is over: one cost_update was sent and the
\* accumulated cost is the figure of the second invocation alone
C18_Witness ==
    /\ TurnDone /\ nInv = 2
    /\ Cardinality(CostUpdates) = 1
    /\ memory[Len(memory)].role = "assistant"
    /\ step_cost = PromptCost(SubSeq(memory, 1, Len(memory) - 1))
    /\ total_cost = step_cost

\* the concatenation of the argument pieces of the fragments, in order
RECURSIVE ConcatArguments(_)
ConcatArguments(frags) ==
    IF frags = <<>> THEN <<>>
    ELSE Head(frags).arguments \o ConcatArguments(Tail(frags))

\* fragments for one index: the first carries id and name, the others carry
\* neither
OneCallFragments(frags) ==
    /\ frags # <<>>
    /\ frags[1].id # NoId /\ frags[1].name # ""
    /\ \A i \in 2..Len(frags) :
           /\ frags[i].index = frags[1].index
           /\ frags[i].id = NoId /\ frags[i].name = ""

\* C20: a stream of fragments for one index, the first with id and name and
\* the others with arguments only, that ends with reason tool_calls is
\* finalized as one tool call with that id, that name and the argument pieces
\* concatenated in arrival order; and a name on a fragment for a slot that
\* exists becomes the slot's name exactly when the slot's name is empty.
C20_FragmentsFinalizeToOneCall ==
    /\ [](f_pc = "done" /\ f_reason = "tool_calls" /\ OneCallFragments(f_seen) =>
            LET call == ToolCall(f_seen[1].id, f_seen[1].name,
                                 ConcatArguments(f_seen))
            IN  f_ops = <<AppendOp(AssistantCalls(<<call>>)),
                          YieldOp("tool_call_request", <<>>, <<call>>, NoCost)>>)
    /\ [][\A p \in 1..Len(f_tcip) :
             f_seen' # f_seen /\ f_seen'[Len(f_seen')].index = f_tcip[p].index =>
                 f_tcip'[p].name =
                     IF f_tcip[p].name = "" THEN f_seen'[Len(f_seen')].name
                     ELSE f_tcip[p].name]_fragvars

\* three fragments for one index were finalized: id and name came first, two
\* different argument pieces followed
C20_Witness ==
    /\ f_pc = "done" /\ f_reason = "tool_calls"
    /\ OneCallFragments(f_seen) /\ Len(f_seen) = 3
    /\ f_seen[2].arguments = <<"a">> /\ f_seen[3].arguments = <<"b">>
    /\ Len(f_ops) = 2
    /\ f_ops[2].tool_calls[1].arguments = f_seen[1].arguments \o <<"a", "b">>

\* the pending-question map holds an entry for request r of connection c
HasSlot(pq, c, r) == c \in DOMAIN pq /\ r \in pq[c]

Answered(c, r) ==
    \E i \in 1..Len(inbox[c]) :
        inbox[c][i] = [type |-> "user_response", request_id |-> r]

SessionOf(c) ==
    << {ACTIVE_CONNECTIONS[k] : k \in DOMAIN ACTIVE_CONNECTIONS \cap {c}},
       {PENDING_AGENT_QUESTIONS[k] : k \in DOMAIN PENDING_AGENT_QUESTIONS \cap {c}},
       co[c], asking[c], action_result[c], sent[c] >>

ByIndex(frags, k) == SelectSeq(frags, LAMBDA f : f.index = k)

\* the same fragments with the indices fed one after the other
OneAfterTheOther(frags) == ByIndex(frags, 0) \o ByIndex(frags, 1)

\* what the accumulator holds for index k
SlotsOfIndex(tcip, k) == {tcip[p] : p \in {q \in 1..Len(tcip) : tcip[q].index = k}}

\* the tool calls the final processing handed on
RequestedCalls(ops) ==
    UNION {{ops[i].tool_calls[j] : j \in 1..Len(ops[i].tool_calls)} :
              i \in {n \in 1..Len(ops) : ops[n].op = "yield"}}

\* C21: whatever the interleaving of the fragments of two indices, the
\* accumulator holds for every index the id, name and arguments it holds when
\* the fragments of index 0 are fed before those of index 1, and the final
\* processing hands on the same tool calls.
C21_InterleavingKeepsEveryCall ==
    LET seq == AccumulateFragments(<<>>, OneAfterTheOther(f_seen)) IN
    /\ \A k \in {0, 1} : SlotsOfIndex(f_tcip, k) = SlotsOfIndex(seq, k)
    /\ f_pc = "done" =>
          LET ops == StepFinish([StepLocals EXCEPT
                                     !.tool_calls_in_progress = seq,
                                     !.captured_finish_reason = f_reason], FALSE)
          IN  /\ RequestedCalls(f_ops) = RequestedCalls(ops)
              /\ Len(f_ops) = Len(ops)
              /\ \A i \in 1..Len(ops) : f_ops[i].type = ops[i].type

\* a fragment of index 1 arrived between two fragments of index 0, and both
\* calls were finalized with their own arguments
C21_Witness ==
    /\ f_pc = "done" /\ f_reason = "tool_calls" /\ Len(f_seen) = 3
    /\ f_seen[1].index = 0 /\ f_seen[2].index = 1 /\ f_seen[3].index = 0
    /\ f_seen[1].arguments = <<"a">> /\ f_seen[3].arguments = <<"b">>
    /\ RequestedCalls(f_ops) =
           {ToolCall(7, "search", <<"a", "b">>),
            ToolCall(8, "terminate", f_seen[2].arguments)}

\* the tool calls of the assistant messages the final processing appended
AppendedCalls(ops) ==
    UNION {{ops[i].msg.tool_calls[j] : j \in 1..Len(ops[i].msg.tool_calls)} :
              i \in {n \in 1..Len(ops) : ops[n].op = "append"}}

\* the accumulated slots that carry an id and a name, as tool calls
CompleteSlots(tcip) ==
    {ToolCall(tcip[p].id, tcip[p].name, tcip[p].arguments) :
        p \in {q \in 1..Len(tcip) : tcip[q].id # NoId /\ tcip[q].name # ""}}

\* C22: after the final processing every tool call of an appended assistant
\* message and every tool call handed to the routing step has an id and a
\* non-empty name; with reason tool_calls these are the accumulated slots that
\* carry both, so that a slot lacking either is dropped.
C22_OnlyCompleteCallsLeaveTheStep ==
    f_pc = "done" =>
        /\ \A c \in AppendedCalls(f_ops) \cup RequestedCalls(f_ops) :
               c.id # NoId /\ c.name # ""
        /\ f_reason = "tool_calls" =>
               /\ AppendedCalls(f_ops) = CompleteSlots(f_tcip)
               /\ RequestedCalls(f_ops) = CompleteSlots(f_tcip)

\* of two accumulated slots the one without an id was dropped and the other
\* one was appended and handed on
C22_Witness ==
    /\ f_pc = "done" /\ f_reason = "tool_calls"
    /\ Len(f_tcip) = 2
    /\ \E p \in 1..2 : f_tcip[p].id = NoId /\ f_tcip[p].name # ""
    /\ Cardinality(RequestedCalls(f_ops)) = 1
    /\ Cardinality(AppendedCalls(f_ops)) = 1

\* the stream ended with reason tool_calls, fragments were accumulated, and
\* no accumulated slot carries both an id and a name
InconsistentStream(prov) ==
    LET L == StepLoop(prov.chunks, StepLocals, FALSE, FALSE) IN
    /\ prov.raises = "none"
    /\ L.captured_finish_reason = "tool_calls"
    /\ L.tool_calls_in_progress # <<>>
    /\ CompleteSlots(L.tool_calls_in_progress) = {}

\* C23: a model invocation whose stream ends with reason tool_calls and with
\* accumulated fragments of which none has both an id and a name appends one
\* assistant message carrying an error text, sends one error event, returns
\* to the main loop, dispatches no tool call and sends no event of the except
\* clause.
C23_NoValidCallIsAnErrorTurn ==
    [][pc = "step" /\ InconsistentStream(stream') =>
          /\ memory' = Append(memory,
                 AssistantText(<<"[Agent Error: Inconsistent tool call state]">>))
          /\ pc' = "idle"
          /\ Len(out') > Len(out) /\ SubSeq(out', 1, Len(out)) = out
          /\ out'[Len(out) + 1] = Ev("error", <<"inconsistent">>, <<>>, NoCost)
          /\ \A i \in (Len(out) + 2)..Len(out') : out'[i].type = "cost_update"
          /\ current_tool_calls' = current_tool_calls]_vars

\* a turn is over whose model response carried a tool call without an id
C23_Witness ==
    /\ TurnDone /\ InconsistentStream(stream)
    /\ memory[Len(memory)].role = "assistant"
    /\ memory[Len(memory)].content = <<"[Agent Error: Inconsistent tool call state]">>
    /\ \E i \in 1..Len(out) : out[i].type = "error"

\* C24: when the model stream of the last invocation of a turn that a
\* user_message started ended with an error terminator, the step cost handed
\* to the main loop is the figure of the stream's trailing cost marker, which
\* is 0, and the cost_update of the turn is sent.
C24_CostMarkerAfterErrorIsCaptured ==
    TurnDone /\ StreamFailed /\ lastIn = In("user_message", "idle") =>
        /\ step_cost = 0
        /\ CostUpdates # {}

\* C25: when the wait loop reads a result that signals the user's denial and
\* the engine goes on to the next model invocation, every client tool call
\* dispatched in the turn has a tool message in the conversation.
C25_DenialWaitsForSiblings ==
    [][/\ pc = "wait" /\ pc' = "step"
       /\ memory'[Len(memory')].role = "tool"
       /\ memory'[Len(memory')].content = Denied
       => \A id \in Dispatched(out') : HasToolResult(memory', id)]_vars

\* the ids of the most recent tool-call message that have no tool message
Outstanding(mem) == {id \in ExpectedIds(mem) : ~HasToolResult(mem, id)}

\* the most recent tool-call message asks for client tools only
ClientBatch(mem) ==
    LET i == LastCallMsg(mem, Len(mem)) IN
    /\ i > 0
    /\ \A j \in 1..Len(mem[i].tool_calls) : mem[i].tool_calls[j].name \in ClientTools

\* C26: a tool_result that delivers the last outstanding id of the most
\* recent batch of client tool calls makes the engine go on to the next model
\* invocation, in the wait loop and in the main loop alike, when no result of
\* the conversation is a denial.
C26_LastResultStartsNextInvocation ==
    [][/\ lastIn'.type = "tool_result"
       /\ ClientBatch(memory)
       /\ Outstanding(memory) # {} /\ Outstanding(memory') = {}
       /\ \A i \in 1..Len(memory') : memory'[i].content # Denied
       => pc' = "step"]_vars

\* the step runs into a checkpoint that sees the stop flag set: the turn
\* returns to the main loop and the info event of the checkpoint is sent
StopObserved ==
    /\ stop_requested /\ pc # "idle" /\ pc' = "idle"
    /\ \E i \in (Len(out) + 1)..Len(out') : out'[i].type = "info"

\* the cancellation results for id that the step appends
NewCancels(id) ==
    {i \in (Len(memory) + 1)..Len(memory') :
        memory'[i] = Msg("tool", TRUE, Cancelled, <<>>, id)}

\* id has a tool message that is not a cancellation result of this step
OtherResult(id) ==
    \E i \in 1..Len(memory') :
        /\ memory'[i].role = "tool" /\ memory'[i].tool_call_id = id
        /\ i \notin NewCancels(id)

C29_ConversationIsAppendOnly ==
    /\ [](memory # <<>> /\ memory[1] = SystemPrompt)
    /\ [][/\ Len(memory') >= Len(memory)
          /\ SubSeq(memory', 1, Len(memory)) = memory]_vars

\* a turn with a tool call is over: the conversation holds the system prompt,
\* the user message, the assistant's tool calls, a tool result and the
\* assistant's text, in that order
C29_Witness ==
    /\ TurnDone /\ Len(memory) >= 5
    /\ memory[1] = SystemPrompt
    /\ memory[2].role = "user"
    /\ memory[3].role = "assistant" /\ memory[3].tool_calls # <<>>
    /\ memory[4].role = "tool"
    /\ memory[Len(memory)].role = "assistant" /\ memory[Len(memory)].has_content

\* ------------------------------------------------------------ C30
\* the text of a stream: the content of its chunks, one after the other
RECURSIVE TextOf(_)
TextOf(chunks) ==
    IF chunks = <<>> THEN <<>> ELSE Head(chunks).content \o TextOf(Tail(chunks))

\* some prefix of the text, stripped, starts with "{": from there on an
\* ollama/ model's text is withheld
Withheld(chunks) ==
    \E n \in 1..Len(chunks) :
        LET st == Strip(TextOf(SubSeq(chunks, 1, n))) IN
        st # <<>> /\ Head(st) = "{"

InterpretedAsToolCall(ops) ==
    \E i \in 1..Len(ops) : ops[i].op = "yield" /\ ops[i].type = "tool_call_request"

BufferDelivered(chunks, ops) ==
    \E i \in 1..Len(ops) : ops[i] = YieldOp("text", TextOf(chunks), <<>>, NoCost)

\* C30: for an ollama/ model, when the step is over a stream whose text was
\* withheld because its prefix starts with "{", and the text was not
\* interpreted as a tool call, the whole buffered text has been yielded to
\* the caller as text, whatever the finish reason of the stream
C30_WithheldTextIsDelivered ==
    s_pc = "done" /\ is_ollama_model(s_model) /\ Withheld(s_stream)
                  /\ ~InterpretedAsToolCall(s_ops) =>
        BufferDelivered(s_stream, s_ops)

\* ------------------------------------------------------------ C31
\* the stream's text is read as a tool call by the fallback of the stop branch
FallbackStream(prov) ==
    /\ prov.raises = "none" /\ prov.chunks # <<>>
    /\ prov.chunks[Len(prov.chunks)].finish_reason = "stop"
    /\ FallbackName(TextOf(prov.chunks)) # ""

\* an assistant message whose content is the raw text of a tool call
RawCallText(m) ==
    m.role = "assistant" /\ m.has_content /\ FallbackName(m.content) # ""

\* C31: a stream that ends with stop and whose text the fallback reads as a
\* tool call is treated as a tool_calls outcome: the invocation appends one
\* assistant message with that call and no content, and the conversation
\* never holds an assistant message whose content is the raw text
C31_FallbackIsToolCallOutcome ==
    /\ [][pc = "step" /\ FallbackStream(stream') =>
              LET name == FallbackName(TextOf(stream'.chunks)) IN
              /\ Len(memory') > Len(memory)
              /\ memory'[Len(memory) + 1] =
                     AssistantCalls(<<ToolCall(FallbackId(name), name, ArgsFull)>>)]_vars
    /\ [](\A i \in 1..Len(memory) : ~RawCallText(memory[i]))

\* ------------------------------------------------------------ C32
\* the finish reason step has captured at the end of the stream
RECURSIVE LastReason(_)
LastReason(chunks) ==
    IF chunks = <<>> THEN ""
    ELSE IF chunks[Len(chunks)].finish_reason # ""
    THEN chunks[Len(chunks)].finish_reason
    ELSE LastReason(SubSeq(chunks, 1, Len(chunks) - 1))

\* the provider did not raise and the stream ended with a reason other than
\* tool_calls or stop, or with none
IncompleteStream(prov) ==
    /\ prov.raises = "none"
    /\ LastReason(prov.chunks) \notin {"stop", "tool_calls"}

\* the partial text with its annotation; without text the annotation alone
Annotated(text) ==
    IF text # <<>> THEN text \o <<"[Incomplete Response]">>
    ELSE <<"[Agent Error: Stream ended unexpectedly]">>

EventsAfter(o, n, types) ==
    {i \in (n + 1)..Len(o) : o[i].type \in types}

\* C32: an invocation whose stream ends with a reason other than tool_calls
\* or stop appends exactly one message, the assistant message with the
\* annotated partial text, sends exactly one error event, routes no tool
\* call, and the turn ends without another invocation
C32_IncompleteStreamEndsTheTurn ==
    [][pc = "step" /\ IncompleteStream(stream') =>
           /\ memory' = Append(memory,
                               AssistantText(Annotated(TextOf(stream'.chunks))))
           /\ Cardinality(EventsAfter(out', Len(out), {"error"})) = 1
           /\ EventsAfter(out', Len(out),
                          {"tool_call_request", "ask_user_request",
                           "terminate_request"}) = {}
           /\ pc' = "idle"
           /\ current_tool_calls' = current_tool_calls
           /\ pending_ask_user_tool_call_id' = pending_ask_user_tool_call_id]_vars

C32_Witness ==
    /\ pc = "idle" /\ nInv > 1 /\ IncompleteStream(stream)
    /\ TextOf(stream.chunks) # <<>>
    /\ memory[Len(memory)] = AssistantText(Annotated(TextOf(stream.chunks)))
    /\ out[Len(out)].type = "error"

\* ------------------------------------------------------------ C33
\* a chain of run_agent_step_and_send starts: the main loop has made its
\* call and no model invocation of the chain has happened yet
ChainStarts == pc' = "step" /\ nInv' = 0

\* C33: a chain of run_agent_step_and_send starts only when no earlier chain
\* of the connection is active, that is from the receive of the main loop;
\* a message read while a chain runs starts none
C33_OneChainAtATime ==
    [][/\ ChainStarts => pc = "idle"
       /\ pc # "idle" /\ lastIn' # lastIn => lastIn'.at = "wait"]_vars

C33_Witness ==
    /\ pc = "wait" /\ nInv > 0
    /\ lastIn = In("user_message", "wait")

\* ------------------------------------------------------------ C34
\* the invocation of a turn started by a user_message has appended an
\* assistant message with tool calls, each of them for a tool that has a
\* venue and with well-formed arguments
AppendsRoutableCalls ==
    /\ pc = "step" /\ Len(memory') > Len(memory)
    /\ lastIn = In("user_message", "idle")
    /\ memory'[Len(memory) + 1].role = "assistant"
    /\ memory'[Len(memory) + 1].tool_calls # <<>>
    /\ \A j \in 1..Len(memory'[Len(memory) + 1].tool_calls) :
           /\ memory'[Len(memory) + 1].tool_calls[j].name
                  \in ServerTools \cup ClientTools \cup {"ask_user", "terminate"}
           /\ memory'[Len(memory) + 1].tool_calls[j].arguments = ArgsFull

\* how often the routing step has consumed call c: results appended for a
\* server tool, requests sent for a client tool, signals sent for ask_user
\* and terminate
Consumed(c, calls, mem, n, o, k) ==
    IF c.name \in ServerTools
    THEN Cardinality({i \in (n + 1)..Len(mem) :
                          mem[i].role = "tool" /\ mem[i].tool_call_id = c.id})
    ELSE IF c.name \in ClientTools
    THEN Cardinality({i \in (k + 1)..Len(o) :
                          /\ o[i].type = "tool_call_request"
                          /\ c.id \in CallIds(o[i].tool_calls)})
    ELSE IF Cardinality({i \in (k + 1)..Len(o) :
                             o[i].type = IF c.name = "ask_user"
                                         THEN "ask_user_request"
                                         ELSE "terminate_request"})
            = Cardinality({j \in 1..Len(calls) : calls[j].name = c.name})
    THEN 1 ELSE 0

\* C34: every tool call of an assistant message the engine appends is
\* consumed exactly once by the routing step that follows: its result is
\* appended, or it is sent to the client, or its signal is sent
C34_EveryCallIsRoutedOnce ==
    [][AppendsRoutableCalls =>
           LET calls == memory'[Len(memory) + 1].tool_calls IN
           \A j \in 1..Len(calls) :
               Consumed(calls[j], calls, memory', Len(memory) + 1,
                        out', Len(out)) = 1]_vars

\* ------------------------------------------------------------ C35
\* C35: whenever run_agent_step_and_send has returned and the receive loop
\* waits for the next message, connection_state["current_tool_calls"] is
\* empty
C35_NoCallInFlightWhenIdle ==
    pc = "idle" => current_tool_calls = {}

\* ------------------------------------------------------------ C36
StoppedEvent == Ev("info", <<"Operation stopped by user request.">>, <<>>, NoCost)

\* C36: the stop flag is false whenever the receive loop waits for the next
\* message, the stop branch included, and it is false when a user_message
\* starts a turn, whose invocations therefore never end on the stop
\* checkpoint
C36_StopLeavesFlagFalse ==
    /\ [](pc = "idle" => ~stop_requested)
    /\ [][lastIn'.type = "stop" => ~stop_requested']_vars
    /\ [][pc = "step" /\ lastIn = In("user_message", "idle") =>
              /\ ~stop_requested
              /\ \A i \in (Len(out) + 1)..Len(out') : out'[i] # StoppedEvent]_vars

C36_Witness ==
    /\ pc = "idle" /\ lastIn = In("stop", "idle") /\ ~stop_requested
    /\ out = <<Ev("info", <<"Stop request received">>, <<>>, NoCost)>>
    /\ Len(memory) > 1

\* ------------------------------------------------------------ C37
\* what the wait loop must leave alone when it drops a message
WaitFrame ==
    /\ memory' = memory
    /\ stop_requested' = stop_requested
    /\ pending_ask_user_tool_call_id' = pending_ask_user_tool_call_id
    /\ w_pending' = w_pending
    /\ pc' = "wait"

\* C37: in the wait loop a message of another type than tool_result changes
\* neither the conversation, the stop flag, the pending ask_user id nor the
\* pending batch, and of a tool_result only results for ids of the pending
\* batch are appended: when none is, the same four are unchanged
C37_WaitLoopDropsOtherMessages ==
    [][pc = "wait" =>
           /\ lastIn' \in {In(t, "wait") :
                              t \in {"user_message", "stop", "user_response"}}
                  => WaitFrame
           /\ lastIn' = In("tool_result", "wait") =>
                  /\ Len(memory') >= Len(memory)
                  /\ SubSeq(memory', 1, Len(memory)) = memory
                  /\ \A i \in (Len(memory) + 1)..Len(memory') :
                         /\ memory'[i].role = "tool"
                         /\ InSeq(memory'[i].tool_call_id, w_pending)
                  /\ stop_requested' = stop_requested
                  /\ pending_ask_user_tool_call_id'
                         = pending_ask_user_tool_call_id
                  /\ Len(memory') = Len(memory) => WaitFrame]_vars

C37_Witness ==
    /\ pc = "wait" /\ w_pending # <<>> /\ nInv > 0
    /\ lastIn = In("stop", "wait")
    /\ memory[Len(memory)].role = "assistant"

\* ------------------------------------------------------------ C38
\* the text the caller has received: the content of the text items step
\* yielded, one after the other
RECURSIVE Received(_)
Received(ops) ==
    IF ops = <<>> THEN <<>>
    ELSE (IF Head(ops).op = "yield" /\ Head(ops).type = "text"
          THEN Head(ops).content ELSE <<>>) \o Received(Tail(ops))

\* C38: when step has run over a stream that ended with stop and has
\* yielded text at all, the text items it yielded, put together, are the
\* text of the stream: every delta once, in the order of the stream
C38_EveryDeltaOnceInOrder ==
    s_pc = "done" /\ LastReason(s_stream) = "stop" /\ Received(s_ops) # <<>> =>
        Received(s_ops) = TextOf(s_stream)

\* ------------------------------------------------------------ C39
ToolMessagesOf(mem, id) ==
    {i \in 1..Len(mem) : mem[i].role = "tool" /\ mem[i].tool_call_id = id}

\* C39: the conversation holds at most one tool message for each id of a
\* tool call the model has made
C39_OneToolMessagePerId ==
    \A id \in AssistantCallIds(memory, Len(memory)) :
        Cardinality(ToolMessagesOf(memory, id)) <= 1

====
